---- MODULE Spec2Model ----
(***************************************************************************)
(* data-accessor: the accessor query hook (createHook), its request        *)
(* coordinator (requestQueryPromise / queryPromise), the suspense wrapper  *)
(* (suspenseRequestQuery / suspend) and the cache store (createCache).     *)
(*                                                                         *)
(* One action per handler or promise reaction.  Promise reactions are the  *)
(* only asynchronous steps of the code; every synchronous call is one      *)
(* atomic action.                                                          *)
(***************************************************************************)
EXTENDS Integers, Sequences, FiniteSets, TLC

VARIABLES
    config,         \* the configuration handed to createHook
    now,            \* the clock read by Date.now() and window.performance.now()
    cacheQuery,     \* dataAccess.query    : cacheId -> request entry
    cacheSuspense,  \* dataAccess.suspense : cacheId -> probe (0 = absent)
    books,          \* the materialized data cache read by cache.get
    promises,       \* every promise returned by queryPromise, in creation order
    probes,         \* every probe returned by suspend, in creation order
    held,           \* the result each caller got from its last accessor call
    last            \* what the last step did and what it returned or raised

vars == <<config, now, cacheQuery, cacheSuspense, books, promises, probes, held, last>>

----------------------------------------------------------------------------
(* Bounds of the model. *)

MaxTime == 2          \* the clock runs from 0 to MaxTime
MaxPromises == 2      \* query invocations per component in one behaviour
MaxProbes == 2        \* probes created per component in one behaviour
MaxDuration == 1      \* cache.duration ranges over 1..MaxDuration

----------------------------------------------------------------------------
(* Values. *)

AllArgs == {"a1", "b1"}     \* the request arguments: two books
Args == {"a1"}              \* the arguments the callers of Spec use
CacheIds == {"k1", "k2"}
Callers == {"c1"}

\* cache.id of the configuration: `getBook#id#${args.id}`
CacheId(args) == IF args = "a1" THEN "k1" ELSE "k2"

NoData == ""
QueryData == "d1"        \* the book a valid response carries
OtherData == "d0"        \* a book put in the data cache by another accessor

QueryName == "query"
Unset == -1              \* a missing option / no timestamp

\* The responses the query resolves with: one valid, and one of each invalid shape.
Response(status, data, error) == [status |-> status, data |-> data, error |-> error]
ValidResponse == Response(200, QueryData, "")
Responses ==
    { ValidResponse,
      Response(500, QueryData, ""),
      Response(200, NoData, "oops"),
      Response(200, NoData, "") }
NetworkError == "Network call error."

Configurations ==
    [ isPrimableFromCache : BOOLEAN,
      duration : 1..MaxDuration,
      enforce : BOOLEAN,
      maxDelay : {Unset, 0} ]

----------------------------------------------------------------------------
(* The entries of the request cache. *)

NoEntry == [kind |-> "none", cacheTimeToRefresh |-> 0, promise |-> 0, message |-> ""]
RequestEntry(timeToRefresh, promise) ==
    [kind |-> "request", cacheTimeToRefresh |-> timeToRefresh, promise |-> promise,
     message |-> ""]
ErrorEntry(message) ==
    [kind |-> "error", cacheTimeToRefresh |-> 0, promise |-> 0, message |-> message]

\* new ErrorTimedOut(queryName, cacheId).message
ErrorTimedOut(queryName, cacheId) ==
    "Data accessor '" \o queryName \o "' with id '" \o cacheId \o "' timed out."

\* (null as any).state
TypeErrorNull == "TypeError: Cannot read properties of null (reading 'state')"

----------------------------------------------------------------------------
(* queryPromise: response validation and the error it throws. *)

\* a variant that validates the status only
ResponseFailedOnStatusOnly(response) == response.status # 200

ResponseFailed(response) ==
    response.status # 200 \/ response.error # "" \/ response.data = NoData

\* a variant that drops the error text
ResponseErrorMessageNoText(response) ==
    "(" \o ToString(response.status) \o ") Response failed."

ResponseErrorMessage(response) ==
    "(" \o ToString(response.status) \o ") Response failed"
        \o (IF response.error # "" THEN ": " \o response.error ELSE ".")

\* cache.get of the configuration: the book of the data cache, or null.
CacheGet(cacheId) == books[cacheId]

\* cache.set of the configuration: stores the parsed book and returns it.
CacheSet(cacheId, response) == [books EXCEPT ![cacheId] = response.data]

----------------------------------------------------------------------------
(* What a step reports. *)

\* The debug option of the hook that serves the arguments: the hook of the
\* first book is created with debug: false, the hook of the second book with
\* debug: true.
Debug(args) == args = "b1"

\* debug && console.log(...), `lines` times: the lines written to the console
Console(args, lines) == IF Debug(args) THEN lines ELSE 0

\* The locals of the handler (the entry, the probe and the cache result it read
\* for the key) and what it returned or raised; `invoked` counts the query
\* invocations of the step, `logged` the lines it wrote to the console.
Report(op, caller, args, outcome, data, message, handle, lines) ==
    [op |-> op, caller |-> caller, args |-> args, outcome |-> outcome, data |-> data,
     message |-> message, handle |-> handle, logged |-> Console(args, lines),
     invoked |-> Len(promises') - Len(promises),
     cacheQueryRequest |-> cacheQuery[CacheId(args)],
     cacheSuspense |-> cacheSuspense[CacheId(args)],
     cacheResult |-> CacheGet(CacheId(args))]

Idle ==
    [op |-> "none", caller |-> "", args |-> "", outcome |-> "none", data |-> NoData,
     message |-> "", handle |-> 0, logged |-> 0, invoked |-> 0,
     cacheQueryRequest |-> NoEntry, cacheSuspense |-> 0, cacheResult |-> NoData]

NoHeld == [kind |-> "none", args |-> "", timeStart |-> Unset, data |-> NoData]
HeldData(data) == [kind |-> "data", args |-> "", timeStart |-> Unset, data |-> data]
HeldPlaceholder(args, timeStart) ==
    [kind |-> "placeholder", args |-> args, timeStart |-> timeStart, data |-> NoData]

Init ==
    /\ config \in Configurations
    /\ now = 0
    /\ cacheQuery = [k \in CacheIds |-> NoEntry]
    /\ cacheSuspense = [k \in CacheIds |-> 0]
    /\ books = [k \in CacheIds |-> NoData]
    /\ promises = <<>>
    /\ probes = <<>>
    /\ held = [c \in Callers |-> NoHeld]
    /\ last = Idle

----------------------------------------------------------------------------
(* queryPromise: the promise of one query invocation. *)

NoResponse == Response(0, NoData, "")

\* status/data/message: the state of the promise and what it settled with;
\* isQueryFinished: (promise as any).state; response, invokedAt and delay record
\* what the query resolved with, when it was invoked and how long it took.
NewPromise(args) ==
    [args |-> args, status |-> "pending", isQueryFinished |-> FALSE, data |-> NoData,
     message |-> "", response |-> NoResponse, invokedAt |-> now, delay |-> 0]

----------------------------------------------------------------------------
(* requestQueryPromise(getCacheStore, args), as the values it computes. *)

\* The bounds are per mounted component: a behaviour has MaxPromises query
\* invocations and MaxProbes probes for each of them.
PromiseLimit == Cardinality(DOMAIN held) * MaxPromises
ProbeLimit == Cardinality(DOMAIN held) * MaxProbes

\* a variant without the check for a stored error
RequestNeverThrows(args) == FALSE

\* if (cacheQueryRequest instanceof Error) throw cacheQueryRequest
RequestThrows(args) == cacheQuery[CacheId(args)].kind = "error"

\* a variant in which a hook with debug: true never reuses a request
RequestCachedUnlessDebug(args) ==
    /\ ~Debug(args)
    /\ cacheQuery[CacheId(args)].kind = "request"
    /\ cacheQuery[CacheId(args)].promise # 0

\* a variant that retries: the promise of a rejected operation is not reused
RequestCachedUnlessRejected(args) ==
    /\ cacheQuery[CacheId(args)].kind = "request"
    /\ cacheQuery[CacheId(args)].promise # 0
    /\ promises[cacheQuery[CacheId(args)].promise].status # "rejected"

\* const cacheQueryPromise = cacheQueryRequest?.promise; if (cacheQueryPromise) ...
RequestCached(args) ==
    /\ cacheQuery[CacheId(args)].kind = "request"
    /\ cacheQuery[CacheId(args)].promise # 0

RequestInvokes(args) == ~RequestThrows(args) /\ ~RequestCached(args)

\* the promise requestQueryPromise returns
RequestPromise(args) ==
    IF RequestCached(args) THEN cacheQuery[CacheId(args)].promise ELSE Len(promises) + 1

\* a variant that invokes the query twice
RequestPromisesTwice(args) ==
    IF RequestInvokes(args)
    THEN Append(Append(promises, NewPromise(args)), NewPromise(args))
    ELSE promises

\* the promises after the call: queryPromise invoked the query when nothing was cached
RequestPromises(args) ==
    IF RequestInvokes(args) THEN Append(promises, NewPromise(args)) ELSE promises

\* a variant that issues the operation without recording it
RequestCacheQueryUnwritten(args) == cacheQuery

\* the request cache after the call
RequestCacheQuery(args) ==
    IF RequestInvokes(args)
    THEN [cacheQuery EXCEPT ![CacheId(args)] =
              RequestEntry(now + config.duration, Len(promises) + 1)]
    ELSE cacheQuery

----------------------------------------------------------------------------
(* suspend(promise): the probe. *)

NewProbe(promise, cacheId, timeStart) ==
    [promise |-> promise, cacheId |-> cacheId, timeStart |-> timeStart,
     chain |-> "pending", status |-> "pending"]

\* a variant without the pending case: the empty result is returned
ProbeOutcomeNoPending(probe) ==
    CASE probe.status = "error" -> "throw"
      [] OTHER -> "data"

\* What calling a probe does: throw suspender / throw result / return result.
ProbeOutcome(probe) ==
    CASE probe.status = "pending" -> "suspend"
      [] probe.status = "error" -> "throw"
      [] OTHER -> "data"

----------------------------------------------------------------------------
(* The accessor hook. *)

\* (cacheQueryRequest.promise as any).state.isQueryFinished
IsQueryFinished(entry) == promises[entry.promise].isQueryFinished

\* a variant that expires the entry one tick early (>= for >)
IsExpiredAtDeadline(entry) == now >= entry.cacheTimeToRefresh

\* Date.now() > cacheQueryRequest.cacheTimeToRefresh
IsExpired(entry) == now > entry.cacheTimeToRefresh

\* variants: the flag negated, and the flag not read
IsPrimableInverted(cacheResult) == ~config.isPrimableFromCache /\ cacheResult # NoData
IsPrimableIgnoringFlag(cacheResult) == cacheResult # NoData

\* cache.isPrimableFromCache && cacheResult
IsPrimable(cacheResult) == config.isPrimableFromCache /\ cacheResult # NoData

\* typeof constraints?.maxDelay === 'number': timeStart = window.performance.now()
TimeStart == IF config.maxDelay # Unset THEN now ELSE Unset

\* a variant of the cache reset that forgets the suspense cache
ResetCacheSuspenseKept(cacheId) == cacheSuspense

\* a variant of the cache reset that keeps the request entry
ResetCacheQueryKept(cacheId) == cacheQuery

\* a variant of the cache reset that clears the whole request cache
ResetCacheQueryAll(cacheId) == [k \in CacheIds |-> NoEntry]

\* cache reset for query & suspense: cacheQuery.delete, cacheSuspense.delete
ResetCacheQuery(cacheId) == [cacheQuery EXCEPT ![cacheId] = NoEntry]
ResetCacheSuspense(cacheId) == [cacheSuspense EXCEPT ![cacheId] = 0]

AccessorCall(c, args) ==
    LET cacheId == CacheId(args)
        cacheQueryRequest == cacheQuery[cacheId]
        cacheResult == CacheGet(cacheId)
        \* `lines`: the console.log statements on the path taken
        report(outcome, data, message, lines) ==
            Report("call", c, args, outcome, data, message, 0, lines)
    IN
    /\ UNCHANGED <<config, now, books, promises, probes>>
    /\ IF cacheQueryRequest.kind = "error"
       THEN \* throw cacheQueryRequest
            /\ last' = report("throw", NoData, cacheQueryRequest.message, 2)
            /\ UNCHANGED <<cacheQuery, cacheSuspense, held>>
       ELSE IF cacheQueryRequest.kind = "request" /\ cacheQueryRequest.promise = 0
       THEN \* reading .state of the null promise of a primed entry
            /\ last' = report("throw", NoData, TypeErrorNull, 2)
            /\ UNCHANGED <<cacheQuery, cacheSuspense, held>>
       ELSE IF cacheQueryRequest.kind = "request" /\ IsQueryFinished(cacheQueryRequest)
       THEN IF IsExpired(cacheQueryRequest)
            THEN \* cache reset for query & suspense, then the proxy
                 /\ cacheQuery' = ResetCacheQuery(cacheId)
                 /\ cacheSuspense' = ResetCacheSuspense(cacheId)
                 /\ held' = [held EXCEPT ![c] = HeldPlaceholder(args, TimeStart)]
                 /\ last' = report("placeholder", NoData, "", 4)
            ELSE /\ UNCHANGED <<cacheQuery, cacheSuspense>>
                 /\ IF cacheResult # NoData
                    THEN /\ held' = [held EXCEPT ![c] = HeldData(cacheResult)]
                         /\ last' = report("data", cacheResult, "", 4)
                    ELSE /\ held' = [held EXCEPT ![c] = HeldPlaceholder(args, TimeStart)]
                         /\ last' = report("placeholder", NoData, "", 3)
       ELSE IF IsPrimable(cacheResult)
       THEN \* cache with resolved cache result
            /\ cacheQuery' = [cacheQuery EXCEPT ![cacheId] =
                                  RequestEntry(now + config.duration, 0)]
            /\ held' = [held EXCEPT ![c] = HeldData(cacheResult)]
            /\ last' = report("data", cacheResult, "", 5)
            /\ UNCHANGED cacheSuspense
       ELSE /\ held' = [held EXCEPT ![c] = HeldPlaceholder(args, TimeStart)]
            /\ last' = report("placeholder", NoData, "", 3)
            /\ UNCHANGED <<cacheQuery, cacheSuspense>>

----------------------------------------------------------------------------
(* The get trap of the proxy: suspenseRequestQuery({...})(). *)

PlaceholderAccess(c) ==
    /\ held[c].kind = "placeholder"
    /\ LET args == held[c].args
           cacheId == CacheId(args)
           cached == cacheSuspense[cacheId]
           report(outcome, data, message, handle, lines) ==
               Report("access", c, args, outcome, data, message, handle, lines)
           call(p, probe, lines) ==
               report(ProbeOutcome(probe),
                      IF probe.status = "success"
                      THEN promises[probe.promise].data ELSE NoData,
                      IF probe.status = "error"
                      THEN promises[probe.promise].message ELSE "",
                      p, lines)
       IN
       /\ UNCHANGED <<config, now, books, held>>
       /\ IF cached # 0
          THEN \* suspense cache found
               /\ UNCHANGED <<cacheQuery, cacheSuspense, promises, probes>>
               /\ last' = call(cached, probes[cached], 3)
          ELSE IF RequestThrows(args)
          THEN /\ UNCHANGED <<cacheQuery, cacheSuspense, promises, probes>>
               /\ last' = report("throw", NoData, cacheQuery[cacheId].message, 0, 5)
          ELSE /\ Len(probes) < ProbeLimit
               /\ RequestInvokes(args) => Len(promises) < PromiseLimit
               /\ promises' = RequestPromises(args)
               /\ cacheQuery' = RequestCacheQuery(args)
               /\ probes' = Append(probes,
                       NewProbe(RequestPromise(args), cacheId, held[c].timeStart))
               /\ cacheSuspense' = [cacheSuspense EXCEPT ![cacheId] = Len(probes) + 1]
               /\ last' = call(Len(probes) + 1,
                               NewProbe(RequestPromise(args), cacheId, held[c].timeStart),
                               IF RequestCached(args) THEN 6 ELSE 7)

----------------------------------------------------------------------------
(* The `request` callback handed to cache.get and cache.set. *)

Request(args) ==
    LET cacheId == CacheId(args)
        report(outcome, message, handle, lines) ==
            Report("request", "", args, outcome, NoData, message, handle, lines)
    IN
    /\ UNCHANGED <<config, now, books, cacheSuspense, probes, held>>
    /\ IF RequestThrows(args)
       THEN /\ UNCHANGED <<cacheQuery, promises>>
            /\ last' = report("throw", cacheQuery[cacheId].message, 0, 1)
       ELSE /\ RequestInvokes(args) => Len(promises) < PromiseLimit
            /\ promises' = RequestPromises(args)
            /\ cacheQuery' = RequestCacheQuery(args)
            /\ last' = report("promise", "", RequestPromise(args),
                               IF RequestCached(args) THEN 2 ELSE 3)

----------------------------------------------------------------------------
(* The continuation of queryPromise after `await query(args)`. *)

Settled(q, status, finished, response, data, message) ==
    [promises EXCEPT ![q] = [@ EXCEPT !.status = status, !.isQueryFinished = finished,
                                      !.response = response,
                                      !.data = data, !.message = message,
                                      !.delay = now - promises[q].invokedAt]]

\* query(args) resolves with a response
QueryResolves(q, response) ==
    /\ q \in 1..Len(promises)
    /\ promises[q].status = "pending"
    /\ IF ResponseFailed(response)
       THEN /\ promises' = Settled(q, "rejected", TRUE, response, NoData,
                                   ResponseErrorMessage(response))
            /\ UNCHANGED books
       ELSE /\ promises' = Settled(q, "fulfilled", TRUE, response, response.data, "")
            /\ books' = CacheSet(CacheId(promises[q].args), response)
    /\ last' = Idle
    /\ UNCHANGED <<config, now, cacheQuery, cacheSuspense, probes, held>>

\* query(args) rejects: the await throws before isQueryFinished is set
QueryRejects(q) ==
    /\ q \in 1..Len(promises)
    /\ promises[q].status = "pending"
    /\ promises' = Settled(q, "rejected", FALSE, NoResponse, NoData, NetworkError)
    /\ last' = Idle
    /\ UNCHANGED <<config, now, cacheQuery, cacheSuspense, books, probes, held>>

----------------------------------------------------------------------------
(* The reactions of the probe: .then(result => { onDone(); return result })  *)
(* and the suspender.                                                       *)

\* a variant that does not read constraints.enforce
TimedOutIgnoringEnforce(timeStart) ==
    /\ timeStart # Unset
    /\ config.maxDelay # Unset
    /\ now - timeStart > config.maxDelay

\* a variant that times out at the deadline (>= for >)
TimedOutAtDeadline(timeStart) ==
    /\ timeStart # Unset
    /\ config.maxDelay # Unset
    /\ now - timeStart >= config.maxDelay
    /\ config.enforce

\* finishProfiling throws: duration > constraints.maxDelay && constraints.enforce
TimedOut(timeStart) ==
    /\ timeStart # Unset
    /\ config.maxDelay # Unset
    /\ now - timeStart > config.maxDelay
    /\ config.enforce

\* the console lines of finishProfiling: the timing, and the overrun
ProfilingLines(timeStart) ==
    IF timeStart = Unset \/ config.maxDelay = Unset THEN 0
    ELSE IF now - timeStart > config.maxDelay THEN 2 ELSE 1

\* a variant that chains onDone for both settlements
OnDoneFiresAlways(status) == TRUE

\* .then(result => { onDone && onDone(); return result }): a fulfilment handler only
OnDoneFires(status) == status = "fulfilled"

OnDone(p) ==
    /\ p \in 1..Len(probes)
    /\ probes[p].chain = "pending"
    /\ promises[probes[p].promise].status # "pending"
    /\ probes' = [probes EXCEPT ![p].chain = promises[probes[p].promise].status]
    /\ IF OnDoneFires(promises[probes[p].promise].status)
       THEN /\ cacheQuery' =
                 IF TimedOut(probes[p].timeStart)
                 THEN [cacheQuery EXCEPT ![probes[p].cacheId] =
                           ErrorEntry(ErrorTimedOut(QueryName, probes[p].cacheId))]
                 ELSE cacheQuery
            /\ last' = [Idle EXCEPT !.logged =
                             Console(promises[probes[p].promise].args,
                                     ProfilingLines(probes[p].timeStart))]
       ELSE /\ UNCHANGED cacheQuery
            /\ last' = Idle
    /\ UNCHANGED <<config, now, cacheSuspense, books, promises, held>>

\* variants that run the same handler for both settlements
SuspenderStatusAlwaysError(chain) == "error"
SuspenderStatusAlwaysSuccess(chain) == "success"

\* a variant whose suspender has no rejection handler
SuspenderStatusOnlySuccess(chain) == IF chain = "fulfilled" THEN "success" ELSE "pending"

\* the handlers of the suspender: status = 'success' / status = 'error'
SuspenderStatus(chain) == IF chain = "fulfilled" THEN "success" ELSE "error"

\* a variant whose probe goes back to pending once its result has been recorded
SuspenderRearms(p) ==
    /\ p \in 1..Len(probes)
    /\ probes[p].chain # "pending"
    /\ probes' = [probes EXCEPT ![p].status =
                      IF probes[p].status = "pending"
                      THEN IF probes[p].chain = "fulfilled" THEN "success" ELSE "error"
                      ELSE "pending"]
    /\ last' = Idle
    /\ UNCHANGED <<config, now, cacheQuery, cacheSuspense, books, promises, held>>

Suspender(p) ==
    /\ p \in 1..Len(probes)
    /\ probes[p].chain # "pending"
    /\ probes[p].status = "pending"
    /\ probes' = [probes EXCEPT ![p].status = SuspenderStatus(probes[p].chain)]
    /\ last' = Idle
    /\ UNCHANGED <<config, now, cacheQuery, cacheSuspense, books, promises, held>>

----------------------------------------------------------------------------
(* The environment: the clock, and another accessor filling the data cache. *)

Tick ==
    /\ now < MaxTime
    /\ now' = now + 1
    /\ last' = Idle
    /\ UNCHANGED <<config, cacheQuery, cacheSuspense, books, promises, probes, held>>

ExternalWrite(cacheId) ==
    /\ books[cacheId] # OtherData
    /\ books' = [books EXCEPT ![cacheId] = OtherData]
    /\ last' = Idle
    /\ UNCHANGED <<config, now, cacheQuery, cacheSuspense, promises, probes, held>>

\* the application evicts a book from the data cache
ExternalDelete(cacheId) ==
    /\ books[cacheId] # NoData
    /\ books' = [books EXCEPT ![cacheId] = NoData]
    /\ last' = Idle
    /\ UNCHANGED <<config, now, cacheQuery, cacheSuspense, promises, probes, held>>

Next ==
    \/ \E c \in Callers, args \in Args : AccessorCall(c, args)
    \/ \E c \in Callers : PlaceholderAccess(c)
    \/ \E args \in Args : Request(args)
    \/ \E q \in 1..MaxPromises, response \in Responses : QueryResolves(q, response)
    \/ \E q \in 1..MaxPromises : QueryRejects(q)
    \/ \E p \in 1..MaxProbes : OnDone(p)
    \/ \E p \in 1..MaxProbes : Suspender(p)
    \/ Tick
    \/ \E cacheId \in CacheIds : ExternalWrite(cacheId)

Spec == Init /\ [][Next]_vars

\* The same engine over a data cache whose entries the application may evict.
NextStore ==
    \/ Next
    \/ \E cacheId \in CacheIds : ExternalDelete(cacheId)

SpecStore == Init /\ [][NextStore]_vars

----------------------------------------------------------------------------
(* createHook(configuration): the validation done at construction.  The     *)
(* configuration is whatever the JavaScript caller passes: each option is a  *)
(* value with a runtime type.                                               *)

JsValue(type, num) == [type |-> type, num |-> num]
JsUndefined == JsValue("undefined", 0)
JsNull == JsValue("null", 0)
JsNaN == JsValue("nan", 0)
JsString == JsValue("string", 0)        \* a string that is no numeral
JsFunction == JsValue("function", 0)
JsTrue == JsValue("boolean", 1)
JsFalse == JsValue("boolean", 0)
JsNumber(n) == JsValue("number", n)

RawConfigurations ==
    [ debug : {JsUndefined, JsTrue, JsFalse, JsString},
      duration : {JsNumber(1), JsNumber(0), JsNumber(-1), JsNaN, JsUndefined,
                  JsNull, JsString},
      id : {JsFunction, JsUndefined},
      get : {JsFunction, JsUndefined},
      set : {JsFunction, JsUndefined},
      isPrimableFromCache : {JsTrue, JsFalse, JsUndefined},
      query : {JsFunction, JsString, JsUndefined} ]

\* typeof value
TypeOf(value) == IF value.type \in {"nan", "number"} THEN "number"
                 ELSE IF value.type = "null" THEN "object"
                 ELSE value.type

\* value <= 0: the value is converted to a number, and NaN compares false
LessOrEqualZero(value) ==
    CASE value.type = "number" -> value.num <= 0
      [] value.type = "boolean" -> value.num <= 0
      [] value.type = "null" -> TRUE
      [] OTHER -> FALSE

\* The error createHook throws for a configuration, or "" when it returns
\* (the backquotes of the messages are written as quotes).
ValidationError(raw) ==
    IF raw.query.type \in {"undefined", "null"}
    THEN "TypeError: Cannot read properties of undefined (reading 'name')"
    ELSE IF TypeOf(raw.debug) # "boolean"
    THEN "Invalid 'debug' value. Must be a boolean."
    ELSE IF LessOrEqualZero(raw.duration)
    THEN "Invalid 'cache.duration' value. Must be an integer greater than zero."
    ELSE IF TypeOf(raw.id) # "function"
    THEN "Invalid 'cache.id' value. Must be a function."
    ELSE IF TypeOf(raw.get) # "function"
    THEN "Invalid 'cache.get' value. Must be a function."
    ELSE IF TypeOf(raw.set) # "function"
    THEN "Invalid 'cache.set' value. Must be a function."
    ELSE IF TypeOf(raw.isPrimableFromCache) # "boolean"
    THEN "Invalid 'cache.isPrimableFromCache' value. Must be a boolean."
    ELSE IF TypeOf(raw.query) # "function"
    THEN "Invalid 'query' value. Must be a function."
    ELSE ""

\* The configuration as the returned accessor reads it (constraints omitted).
Destructured(raw) ==
    [ isPrimableFromCache |-> raw.isPrimableFromCache = JsTrue,
      duration |-> raw.duration.num,
      enforce |-> FALSE,
      maxDelay |-> Unset ]

\* The accessor exists: createHook has returned it.
Created == "query" \notin DOMAIN config

CreateReport(outcome, message, raw) ==
    [op |-> "create", caller |-> "", args |-> "", outcome |-> outcome, data |-> NoData,
     message |-> message, handle |-> 0, logged |-> 0, invoked |-> 0,
     cacheQueryRequest |-> NoEntry, cacheSuspense |-> 0, cacheResult |-> NoData,
     configuration |-> raw]

\* createHook(configuration): throws, or returns the accessor.  The accessor of
\* a configuration whose duration is a number in the range of the model is
\* then run by the steps of Next.
CreateHook ==
    /\ ~Created
    /\ last.op # "create"
    /\ IF ValidationError(config) # ""
       THEN /\ last' = CreateReport("throw", ValidationError(config), config)
            /\ UNCHANGED config
       ELSE /\ last' = CreateReport("hook", "", config)
            /\ config' = IF /\ config.duration.type = "number"
                            /\ config.duration.num \in 1..MaxDuration
                         THEN Destructured(config) ELSE config
    /\ UNCHANGED <<now, cacheQuery, cacheSuspense, books, promises, probes, held>>

InitCreate ==
    /\ config \in RawConfigurations
    /\ now = 0
    /\ cacheQuery = [k \in CacheIds |-> NoEntry]
    /\ cacheSuspense = [k \in CacheIds |-> 0]
    /\ books = [k \in CacheIds |-> NoData]
    /\ promises = <<>>
    /\ probes = <<>>
    /\ held = [c \in Callers |-> NoHeld]
    /\ last = Idle

NextCreate ==
    \/ CreateHook
    \/ Created /\ Next

SpecCreate == InitCreate /\ [][NextCreate]_vars

----------------------------------------------------------------------------
(* Two hooks side by side on one cache store: the hook of the first book is  *)
(* created with debug: false, the hook of the second book with debug: true   *)
(* and otherwise the same configuration.  The second hook is taken through   *)
(* the very steps of the first, one step behind it.  The promises and probes *)
(* of the first hook sit at the odd indices, those of the second right after.*)

DebugCallers == {"c1", "c2"}

\* What the second hook has where the first has x.
TwinIndex(i) == IF i = 0 THEN 0 ELSE i + 1
TwinMessage(message) ==
    IF message = ErrorTimedOut(QueryName, "k1")
    THEN ErrorTimedOut(QueryName, "k2") ELSE message
TwinEntry(entry) ==
    [entry EXCEPT !.promise = TwinIndex(@), !.message = TwinMessage(@)]
TwinPromise(promise) == [promise EXCEPT !.args = "b1"]
TwinProbe(probe) == [probe EXCEPT !.promise = @ + 1, !.cacheId = "k2"]
TwinHeld(result) == [result EXCEPT !.args = IF @ = "a1" THEN "b1" ELSE @]
TwinReport(report) ==
    [report EXCEPT !.caller = IF @ = "c1" THEN "c2" ELSE @,
                   !.args = IF @ = "a1" THEN "b1" ELSE @,
                   !.handle = TwinIndex(@),
                   !.message = TwinMessage(@),
                   !.cacheQueryRequest = TwinEntry(@),
                   !.cacheSuspense = TwinIndex(@)]

Odd(n) == n % 2 = 1

\* The two hooks are in the same state, up to the names of their keys.
Sim ==
    /\ ~Odd(Len(promises))
    /\ \A q \in 1..Len(promises) :
         Odd(q) => /\ promises[q].args = "a1"
                   /\ promises[q + 1] = TwinPromise(promises[q])
    /\ ~Odd(Len(probes))
    /\ \A p \in 1..Len(probes) :
         Odd(p) => /\ probes[p].cacheId = "k1"
                   /\ probes[p + 1] = TwinProbe(probes[p])
    /\ cacheQuery["k2"] = TwinEntry(cacheQuery["k1"])
    /\ cacheSuspense["k2"] = TwinIndex(cacheSuspense["k1"])
    /\ books["k2"] = books["k1"]
    /\ held["c2"] = TwinHeld(held["c1"])

\* The first hook has just run a handler; the second has to run the same.
MirrorsHandler == last.args = "a1"
\* The second hook has caught up: the first moves.
FirstMoves == ~MirrorsHandler /\ Sim

\* A step of the first hook, leaving room for the same step of the second.
StepFirst ==
    /\ FirstMoves
    /\ \/ AccessorCall("c1", "a1")
       \/ PlaceholderAccess("c1")
       \/ Request("a1")
       \/ \E q \in 1..PromiseLimit, response \in Responses :
            Odd(q) /\ QueryResolves(q, response)
       \/ \E q \in 1..PromiseLimit : Odd(q) /\ QueryRejects(q)
       \/ \E p \in 1..ProbeLimit : Odd(p) /\ OnDone(p)
       \/ \E p \in 1..ProbeLimit : Odd(p) /\ Suspender(p)
       \/ ExternalWrite("k1")
    /\ 2 * Len(promises') - Len(promises) <= PromiseLimit
    /\ 2 * Len(probes') - Len(probes) <= ProbeLimit

\* The same step of the second hook: the handler the first has just run, or
\* the reaction or write that the first is ahead by.
StepSecond ==
    /\ ~FirstMoves
    /\ \/ MirrorsHandler /\ last.op = "call" /\ AccessorCall("c2", "b1")
       \/ MirrorsHandler /\ last.op = "access" /\ PlaceholderAccess("c2")
       \/ MirrorsHandler /\ last.op = "request" /\ Request("b1")
       \/ /\ ~MirrorsHandler
          /\ \E q \in 1..Len(promises) :
               /\ Odd(q) /\ q < Len(promises)
               /\ promises[q].status # "pending"
               /\ promises[q].response # NoResponse
               /\ QueryResolves(q + 1, promises[q].response)
       \/ /\ ~MirrorsHandler
          /\ \E q \in 1..Len(promises) :
               /\ Odd(q) /\ q < Len(promises)
               /\ promises[q].status # "pending"
               /\ promises[q].response = NoResponse
               /\ QueryRejects(q + 1)
       \/ /\ ~MirrorsHandler
          /\ \E p \in 1..Len(probes) :
               /\ Odd(p) /\ p < Len(probes)
               /\ probes[p].chain # "pending"
               /\ OnDone(p + 1)
       \/ /\ ~MirrorsHandler
          /\ \E p \in 1..Len(probes) :
               /\ Odd(p) /\ p < Len(probes)
               /\ probes[p].status # "pending"
               /\ Suspender(p + 1)
       \/ /\ ~MirrorsHandler
          /\ \A q \in 1..Len(promises) :
               Odd(q) /\ q < Len(promises) => promises[q + 1].status = promises[q].status
          /\ books["k1"] # books["k2"]
          /\ ExternalWrite("k2")

InitDebug ==
    /\ config \in Configurations
    /\ now = 0
    /\ cacheQuery = [k \in CacheIds |-> NoEntry]
    /\ cacheSuspense = [k \in CacheIds |-> 0]
    /\ books = [k \in CacheIds |-> NoData]
    /\ promises = <<>>
    /\ probes = <<>>
    /\ held = [c \in DebugCallers |-> NoHeld]
    /\ last = Idle

NextDebug ==
    \/ StepFirst
    \/ StepSecond
    \/ FirstMoves /\ Tick

SpecDebug == InitDebug /\ [][NextDebug]_vars

----------------------------------------------------------------------------
(* The render loop of one component: call the accessor, access the data,     *)
(* await the suspend signal that the access raised, call the accessor again. *)
(* Every query resolves with the valid response, after a latency of 0 to     *)
(* MaxLatency ticks; the clock stands still during the synchronous steps.    *)

MaxLatency == MaxDuration + 1

\* the loop awaits the signal it caught: the promise of the suspender reaction
Awaiting == \E p \in 1..Len(probes) : probes[p].status = "pending"

\* the loop has ended: the accessor or the access gave data, or raised an error
LoopEnded == last.outcome \in {"data", "throw"}

LoopCall ==
    /\ ~Awaiting
    /\ ~LoopEnded
    /\ last.outcome # "placeholder"
    /\ AccessorCall("c1", "a1")

LoopAccess ==
    /\ last.op = "call"
    /\ last.outcome = "placeholder"
    /\ PlaceholderAccess("c1")

\* the query of the loop resolves with a valid response
LoopQueryResolves == \E q \in 1..PromiseLimit : QueryResolves(q, ValidResponse)

\* the reactions of the probe run
LoopReacts == \E p \in 1..ProbeLimit : OnDone(p) \/ Suspender(p)

\* time passes while a query is in flight
LoopTick ==
    /\ \E q \in 1..Len(promises) :
         /\ promises[q].status = "pending"
         /\ now - promises[q].invokedAt < MaxLatency
    /\ now' = now + 1
    /\ last' = Idle
    /\ UNCHANGED <<config, cacheQuery, cacheSuspense, books, promises, probes, held>>

\* Nothing refers to the settled promises and probes any more, and no entry
\* holds a timestamp: the promises and probes are collected and time is
\* counted from here.
Forget ==
    /\ Len(promises) > 0
    /\ \A k \in CacheIds : cacheQuery[k] = NoEntry /\ cacheSuspense[k] = 0
    /\ \A q \in 1..Len(promises) : promises[q].status # "pending"
    /\ \A p \in 1..Len(probes) : probes[p].chain # "pending" /\ probes[p].status # "pending"
    /\ \A c \in Callers : held[c].timeStart = Unset
    /\ promises' = <<>>
    /\ probes' = <<>>
    /\ now' = 0
    /\ UNCHANGED <<config, cacheQuery, cacheSuspense, books, held, last>>

InitLoop ==
    /\ Init
    /\ config.maxDelay = Unset

NextLoop ==
    \/ LoopCall
    \/ LoopAccess
    \/ LoopQueryResolves
    \/ LoopReacts
    \/ LoopTick
    \/ Forget

\* The component repeats its loop, the query resolves, and the reactions of a
\* settled promise run.
FairLoop ==
    /\ WF_vars(LoopCall)
    /\ WF_vars(LoopAccess)
    /\ WF_vars(LoopQueryResolves)
    /\ WF_vars(LoopReacts)
    /\ WF_vars(Forget)

SpecLoop == InitLoop /\ [][NextLoop]_vars /\ FairLoop

----------------------------------------------------------------------------
(* Two components that use the accessor with the same arguments: each holds  *)
(* the result of its own last accessor call.  No duration constraints, and   *)
(* everything happens within one tick of the clock.                          *)

SharedCallers == {"c1", "c2"}

InitShared ==
    /\ config \in Configurations
    /\ config.maxDelay = Unset
    /\ ~config.enforce
    /\ now = 0
    /\ cacheQuery = [k \in CacheIds |-> NoEntry]
    /\ cacheSuspense = [k \in CacheIds |-> 0]
    /\ books = [k \in CacheIds |-> NoData]
    /\ promises = <<>>
    /\ probes = <<>>
    /\ held = [c \in SharedCallers |-> NoHeld]
    /\ last = Idle

NextShared ==
    \/ \E c \in SharedCallers, args \in Args : AccessorCall(c, args)
    \/ \E c \in SharedCallers : PlaceholderAccess(c)
    \/ \E args \in Args : Request(args)
    \/ \E q \in 1..PromiseLimit, response \in Responses : QueryResolves(q, response)
    \/ \E q \in 1..PromiseLimit : QueryRejects(q)
    \/ \E p \in 1..ProbeLimit : OnDone(p)
    \/ \E p \in 1..ProbeLimit : Suspender(p)
    \/ ExternalWrite("k1")

SpecShared == InitShared /\ [][NextShared]_vars

----------------------------------------------------------------------------
(* Properties. *)

\* What the last step found for its key, before it acted.
FoundNoEntry == last.cacheQueryRequest.kind = "none"
FoundNoProbe == last.cacheSuspense = 0
FoundOperation ==
    /\ last.cacheQueryRequest.kind = "request"
    /\ last.cacheQueryRequest.promise # 0
FoundPrimed ==
    /\ last.cacheQueryRequest.kind = "request"
    /\ last.cacheQueryRequest.promise = 0
\* An accessor call changes neither the clock nor a promise, so these read the
\* values the call itself read.
FoundFinished == FoundOperation /\ promises[last.cacheQueryRequest.promise].isQueryFinished
FoundExpired == now > last.cacheQueryRequest.cacheTimeToRefresh

\* C1: for a key that has never been requested (no request entry, no suspension
\* entry) and that priming does not apply to, an accessor call returns a
\* placeholder, and the access of that placeholder invokes the query exactly
\* once, with the arguments of the accessor call.
C1_NeverRequestedInvokesOnce ==
    /\ ( /\ last.op = "call"
         /\ FoundNoEntry /\ FoundNoProbe
         /\ ~(config.isPrimableFromCache /\ last.cacheResult # NoData) )
       => /\ last.outcome = "placeholder"
          /\ last.invoked = 0
          /\ held[last.caller].kind = "placeholder"
          /\ held[last.caller].args = last.args
    /\ ( /\ last.op = "access"
         /\ FoundNoEntry /\ FoundNoProbe )
       => /\ last.invoked = 1
          /\ promises[Len(promises)].args = held[last.caller].args
          /\ promises[Len(promises)].status = "pending"
          /\ last.outcome = "suspend"

C1_Witness ==
    /\ last.op = "access"
    /\ FoundNoEntry /\ FoundNoProbe
    /\ last.invoked = 1
    /\ promises[Len(promises)].args = "a1"

\* The query operations issued for a key that are invoked and not yet settled.
Outstanding(cacheId) ==
    { q \in 1..Len(promises) :
        CacheId(promises[q].args) = cacheId /\ promises[q].status = "pending" }

\* C2: in every reachable state and for every cache key, at most one query
\* operation issued for that key is outstanding (invoked and not yet settled),
\* whatever accessor calls, placeholder accesses and request callbacks occurred.
C2_AtMostOneOutstanding ==
    \A cacheId \in CacheIds : Cardinality(Outstanding(cacheId)) <= 1

\* C3: for a key whose request entry has completed (its operation has set
\* isQueryFinished) and is not expired (now <= cacheTimeToRefresh) and for which
\* cache.get returns a non-null result, every accessor call returns exactly the
\* value cache.get returned, invokes no query and leaves both caches as they are.
C3_CompletedUnexpiredReturnsCache ==
    ( /\ last.op = "call"
      /\ FoundFinished
      /\ ~FoundExpired
      /\ last.cacheResult # NoData )
    => /\ last.outcome = "data"
       /\ last.data = last.cacheResult
       /\ last.data = CacheGet(CacheId(last.args))
       /\ held[last.caller] = HeldData(last.cacheResult)
       /\ last.invoked = 0
       /\ cacheQuery[CacheId(last.args)] = last.cacheQueryRequest
       /\ cacheSuspense[CacheId(last.args)] = last.cacheSuspense

\* the call is made at the very time the entry expires at, and still served
C3_Witness ==
    /\ last.op = "call"
    /\ FoundFinished
    /\ now = last.cacheQueryRequest.cacheTimeToRefresh
    /\ last.outcome = "data"
    /\ last.data = QueryData

\* C4: when isPrimableFromCache is true and cache.get already returns a value at
\* the first accessor call for a key (no request entry yet), the accessor
\* returns that value and the call invokes no query.
C4_PrimedFirstCallReturnsCache ==
    ( /\ last.op = "call"
      /\ FoundNoEntry
      /\ config.isPrimableFromCache
      /\ last.cacheResult # NoData )
    => /\ last.outcome = "data"
       /\ last.data = last.cacheResult
       /\ last.invoked = 0

C4_Witness ==
    /\ last.op = "call"
    /\ FoundNoEntry
    /\ config.isPrimableFromCache
    /\ last.outcome = "data"
    /\ last.data = OtherData
    /\ promises = <<>>

\* C5: once a key has been primed from the data cache, every later accessor
\* call for the key made before the primed entry's expiry time returns the
\* cache.get result, raises no error and invokes no query.
C5_PrimedEntryIsRespected ==
    ( /\ last.op = "call"
      /\ FoundPrimed
      /\ ~FoundExpired )
    => /\ last.outcome = "data"
       /\ last.data = last.cacheResult
       /\ last.invoked = 0

\* C6: when isPrimableFromCache is false and a key has never been requested, an
\* accessor call returns a placeholder even though cache.get returns a value,
\* and accessing that placeholder invokes the query.
C6_NotPrimableStillQueries ==
    /\ ( /\ last.op = "call"
         /\ FoundNoEntry /\ FoundNoProbe
         /\ ~config.isPrimableFromCache
         /\ last.cacheResult # NoData )
       => /\ last.outcome = "placeholder"
          /\ held[last.caller].kind = "placeholder"
          /\ cacheQuery[CacheId(last.args)] = NoEntry
    /\ ( /\ last.op = "access"
         /\ FoundNoEntry /\ FoundNoProbe
         /\ ~config.isPrimableFromCache
         /\ last.cacheResult # NoData )
       => /\ last.invoked = 1
          /\ promises[Len(promises)].args = held[last.caller].args

C6_Witness ==
    /\ last.op = "access"
    /\ FoundNoEntry /\ FoundNoProbe
    /\ ~config.isPrimableFromCache
    /\ last.cacheResult = OtherData
    /\ last.invoked = 1

\* The operation the last step found in the request cache, and its probe.
FoundPromise == promises[last.cacheQueryRequest.promise]
FoundFailedResponse ==
    /\ FoundOperation
    /\ FoundPromise.status = "rejected"
    /\ FoundPromise.isQueryFinished
EntryKept ==
    /\ cacheQuery[CacheId(last.args)] = last.cacheQueryRequest
    /\ cacheSuspense[CacheId(last.args)] = last.cacheSuspense

\* The message the spec gives for each invalid response of the model.
C7_Message(response) ==
    IF response = Response(500, QueryData, "") THEN "(500) Response failed."
    ELSE IF response = Response(200, NoData, "oops") THEN "(200) Response failed: oops"
    ELSE "(200) Response failed."

\* The caller of the access path has awaited the suspend signal: the probe of
\* the key wraps the operation found and has left pending.
FoundAwaited ==
    /\ FoundOperation
    /\ last.cacheSuspense # 0
    /\ probes[last.cacheSuspense].promise = last.cacheQueryRequest.promise
    /\ probes[last.cacheSuspense].status # "pending"

\* C7 as stated: if the query resolved with a status other than 200, or with an
\* error field, or without data, the access path (accessor call, access of the
\* data, await of the suspend signal, repeat) raises "(<status>) Response
\* failed" with the error text: after the await, the accessor call hands out a
\* placeholder for that same operation and the access of it raises the error.
C7_FailedResponseRaises ==
    /\ (last.op = "call" /\ FoundFailedResponse /\ FoundAwaited)
       => /\ last.outcome = "placeholder"
          /\ EntryKept
    /\ (last.op = "access" /\ FoundFailedResponse /\ FoundAwaited)
       => /\ last.outcome = "throw"
          /\ last.message = C7_Message(FoundPromise.response)

\* C7 amended: the operation fails with that message, and the access path raises
\* it when the accessor call that follows the failure finds the entry of that
\* operation unexpired and cache.get returns null, and the probe of the key
\* wraps that operation.
C7_FailedResponseRaisesUnlessServedOrExpired ==
    /\ \A q \in 1..Len(promises) :
         (promises[q].response # NoResponse /\ promises[q].response # ValidResponse)
         => /\ promises[q].status = "rejected"
            /\ promises[q].message = C7_Message(promises[q].response)
    /\ ( /\ last.op = "call"
         /\ FoundFailedResponse
         /\ ~FoundExpired
         /\ last.cacheResult = NoData )
       => /\ last.outcome = "placeholder"
          /\ held[last.caller].kind = "placeholder"
          /\ last.invoked = 0
          /\ EntryKept
    /\ ( /\ last.op = "access"
         /\ FoundFailedResponse
         /\ last.handle # 0
         /\ probes[last.handle].promise = last.cacheQueryRequest.promise )
       => /\ last.invoked = 0
          /\ probes[last.handle].status = "pending" => last.outcome = "suspend"
          /\ probes[last.handle].status # "pending"
             => /\ last.outcome = "throw"
                /\ last.message = C7_Message(FoundPromise.response)

C7_Witness ==
    /\ last.op = "access"
    /\ FoundFailedResponse
    /\ last.outcome = "throw"
    /\ last.message = "(200) Response failed: oops"

\* The probes whose operation was issued on the access path (the accessor call
\* that started the timing was made no later than the query was invoked), took
\* longer than maxDelay and has completed: the onDone hook has run.
SlowCompleted ==
    { p \in 1..Len(probes) :
        /\ config.maxDelay # Unset
        /\ probes[p].chain = "fulfilled"
        /\ probes[p].timeStart # Unset
        /\ probes[p].timeStart <= promises[probes[p].promise].invokedAt
        /\ promises[probes[p].promise].delay > config.maxDelay }

C8_TimeoutMessage(cacheId) ==
    IF cacheId = "k1" THEN "Data accessor 'query' with id 'k1' timed out."
    ELSE "Data accessor 'query' with id 'k2' timed out."

FoundSlowCompleted ==
    /\ FoundOperation
    /\ \E p \in SlowCompleted : probes[p].promise = last.cacheQueryRequest.promise

\* with enforce: the timeout error is in the request cache and every accessor
\* call for the key raises it
C8_EnforcedDelayRaises ==
    /\ \A p \in SlowCompleted :
         config.enforce
         => cacheQuery[probes[p].cacheId] = ErrorEntry(C8_TimeoutMessage(probes[p].cacheId))
    /\ \A cacheId \in CacheIds :
         ( /\ config.enforce
           /\ \E p \in SlowCompleted : probes[p].cacheId = cacheId
           /\ last.op = "call"
           /\ CacheId(last.args) = cacheId )
         => /\ last.outcome = "throw"
            /\ last.message = C8_TimeoutMessage(cacheId)

C8_WitnessNotEnforced ==
    /\ ~config.enforce
    /\ last.op = "call"
    /\ FoundSlowCompleted
    /\ last.outcome = "data"

\* Once a terminal failure entry has been written into the request cache
\* for a key, every subsequent accessor call for that key raises that same
\* error, invokes no query and leaves the entry in place, however much time
\* passes: no step of the engine expires, clears or replaces a failure entry.
\* (Errors are compared by their message.)
C9_FailureRaised ==
    (last.op = "call" /\ last.cacheQueryRequest.kind = "error")
    => /\ last.outcome = "throw"
       /\ last.message = last.cacheQueryRequest.message
       /\ last.invoked = 0
       /\ EntryKept

C9_FailureKept ==
    \A cacheId \in CacheIds :
        cacheQuery[cacheId].kind = "error" => cacheQuery'[cacheId] = cacheQuery[cacheId]

\* C9: every accessor call that finds a terminal failure entry raises it and
\* invokes no query, and no step changes or removes a terminal failure entry.
C9_TerminalFailureIsPermanent == []C9_FailureRaised /\ [][C9_FailureKept]_vars

\* the failure is raised a tick after it was recorded, at the end of the clock
C9_Witness ==
    /\ last.op = "call"
    /\ last.cacheQueryRequest.kind = "error"
    /\ last.outcome = "throw"
    /\ now = MaxTime
    /\ \E p \in 1..Len(probes) :
         /\ probes[p].chain = "fulfilled"
         /\ promises[probes[p].promise].invokedAt + promises[probes[p].promise].delay < now

\* The operation found was rejected by the query itself (await query threw).
FoundRejectedQuery ==
    /\ FoundOperation
    /\ FoundPromise.status = "rejected"
    /\ ~FoundPromise.isQueryFinished

\* C10: if the query operation itself rejects with an error (a network error)
\* instead of resolving with a response, the access path (accessor call, access
\* of the data, await of the suspend signal, repeat) raises that same error:
\* after the await, the accessor call hands out a placeholder for that same
\* operation and the access of it raises the error; the query has been invoked.
C10_RejectedQueryRaises ==
    /\ (last.op = "call" /\ FoundRejectedQuery /\ FoundAwaited)
       => /\ last.outcome = "placeholder"
          /\ EntryKept
    /\ (last.op = "access" /\ FoundRejectedQuery /\ FoundAwaited)
       => /\ last.outcome = "throw"
          /\ last.message = NetworkError
          /\ Len(promises) > 0

\* the same, in the configurations that do not prime from the data cache
C10_RejectedQueryRaisesWithoutPriming ==
    ~config.isPrimableFromCache => C10_RejectedQueryRaises

----------------------------------------------------------------------------
\* Expiry is detected by an accessor call: the entry found has completed and
\* the clock has passed its cacheTimeToRefresh.
C11_ExpiryRemovesBoth ==
    (last.op = "call" /\ FoundFinished /\ FoundExpired)
    => /\ cacheQuery[CacheId(last.args)] = NoEntry
       /\ cacheSuspense[CacheId(last.args)] = 0

\* No step removes one of the two entries of a key without the other.
C11_RemovedTogether ==
    \A cacheId \in CacheIds :
        /\ (cacheQuery[cacheId] # NoEntry /\ cacheQuery'[cacheId] = NoEntry)
           => cacheSuspense'[cacheId] = 0
        /\ (cacheSuspense[cacheId] # 0 /\ cacheSuspense'[cacheId] = 0)
           => cacheQuery'[cacheId] = NoEntry

\* C11: whenever an accessor call detects expiry of a key (its request entry
\* has completed and now > cacheTimeToRefresh), after that call neither the
\* request cache nor the suspense cache contains the key; and no step removes
\* one of the two entries of a key without the other.
C11_ExpiryInvalidatesTogether == []C11_ExpiryRemovesBoth /\ [][C11_RemovedTogether]_vars

\* the expired key had both entries, and both are gone
C11_Witness ==
    /\ last.op = "call"
    /\ FoundFinished /\ FoundExpired
    /\ last.cacheSuspense # 0
    /\ cacheQuery[CacheId(last.args)] = NoEntry
    /\ cacheSuspense[CacheId(last.args)] = 0

----------------------------------------------------------------------------
\* C12: materialized data reaches a caller only as the return value of
\* cache.get: for a key for which cache.get returns null, no accessor call and
\* no placeholder access yields materialized data (from the request cache or
\* from a cached probe that has already resolved).
C12_DataOnlyFromCacheGet ==
    (last.op \in {"call", "access"} /\ last.cacheResult = NoData)
    => last.outcome # "data"

----------------------------------------------------------------------------
(* The probe returned by suspend.  The operation it wraps is the promise    *)
(* handed to suspend: in the hook, requestQueryPromise(...).then(onDone).   *)

\* The last step called a probe.
CalledProbe == last.op = "access" /\ last.handle # 0
ProbeCalled == probes[last.handle]

\* C13: calling the probe while the wrapped operation is still pending never
\* returns a value: it raises the suspend signal (the suspender promise).
C13_PendingProbeSuspends ==
    (CalledProbe /\ ProbeCalled.chain = "pending")
    => /\ last.outcome = "suspend"
       /\ last.data = NoData
       /\ ProbeCalled.status = "pending"

C13_Witness ==
    /\ CalledProbe
    /\ ProbeCalled.chain = "pending"
    /\ promises[ProbeCalled.promise].status = "pending"
    /\ last.outcome = "suspend"

\* C14 as stated: after the wrapped operation has resolved with value v, every
\* call of the probe returns v.
C14_ResolvedProbeReturns ==
    (CalledProbe /\ ProbeCalled.chain = "fulfilled")
    => /\ last.outcome = "data"
       /\ last.data = promises[ProbeCalled.promise].data

\* C14 amended: once the suspender has recorded the resolution (status is
\* 'success'), every call of the probe returns the value v the operation
\* resolved with; a call made before that raises the suspend signal.
C14_RecordedResolutionReturns ==
    /\ \A p \in 1..Len(probes) :
         probes[p].status = "success"
         => /\ probes[p].chain = "fulfilled"
            /\ promises[probes[p].promise].status = "fulfilled"
    /\ (CalledProbe /\ ProbeCalled.chain = "fulfilled")
       => IF ProbeCalled.status = "pending"
          THEN last.outcome = "suspend"
          ELSE /\ ProbeCalled.status = "success"
               /\ last.outcome = "data"
               /\ last.data = promises[ProbeCalled.promise].data
               /\ last.data = promises[ProbeCalled.promise].response.data

C14_Witness ==
    /\ CalledProbe
    /\ ProbeCalled.status = "success"
    /\ last.outcome = "data"
    /\ last.data = QueryData

\* C15 as stated: after the wrapped operation has rejected with error e, every
\* call of the probe raises e and never returns a value or the suspend signal.
C15_RejectedProbeRaises ==
    (CalledProbe /\ ProbeCalled.chain = "rejected")
    => /\ last.outcome = "throw"
       /\ last.message = promises[ProbeCalled.promise].message

\* C15 amended: once the suspender has recorded the rejection (status is
\* 'error'), every call of the probe raises the error e the operation rejected
\* with; a call made before that raises the suspend signal.
C15_RecordedRejectionRaises ==
    /\ \A p \in 1..Len(probes) :
         probes[p].status = "error"
         => /\ probes[p].chain = "rejected"
            /\ promises[probes[p].promise].status = "rejected"
    /\ (CalledProbe /\ ProbeCalled.chain = "rejected")
       => IF ProbeCalled.status = "pending"
          THEN last.outcome = "suspend"
          ELSE /\ ProbeCalled.status = "error"
               /\ last.outcome = "throw"
               /\ last.message = promises[ProbeCalled.promise].message
               /\ last.message # ""
               /\ last.data = NoData

C15_Witness ==
    /\ CalledProbe
    /\ ProbeCalled.status = "error"
    /\ last.outcome = "throw"
    /\ last.message = NetworkError

----------------------------------------------------------------------------
\* What the specification asks of a configuration.
IsPositiveNumber(value) == value.type = "number" /\ value.num > 0
IsCallable(value) == value.type = "function"
IsBoolean(value) == value.type = "boolean"
C16_Invalid(raw) ==
    \/ ~IsPositiveNumber(raw.duration)
    \/ ~IsCallable(raw.id) \/ ~IsCallable(raw.get) \/ ~IsCallable(raw.set)
    \/ ~IsBoolean(raw.isPrimableFromCache)
    \/ ~IsCallable(raw.query)

\* C16: createHook validates its configuration at construction: if
\* cache.duration is not a positive number, or cache.id, cache.get or cache.set
\* is not callable, or cache.isPrimableFromCache is not a boolean, or query is
\* not callable, construction raises an error, no accessor is returned, and no
\* query or store access happens.
C16_InvalidConfigurationRaises ==
    /\ (last.op = "create" /\ C16_Invalid(last.configuration))
       => /\ last.outcome = "throw"
          /\ last.message # ""
    /\ (last.op = "create" /\ last.outcome = "throw")
       => /\ ~Created
          /\ promises = <<>> /\ probes = <<>>
          /\ cacheQuery = [k \in CacheIds |-> NoEntry]
          /\ cacheSuspense = [k \in CacheIds |-> 0]
    /\ ~Created => (promises = <<>> /\ probes = <<>>)

\* C17: the debug option is only validated when present: a configuration
\* that omits debug and is otherwise valid is accepted by createHook, which
\* returns the accessor.
C17_OmittedDebugAccepted ==
    ( /\ last.op = "create"
      /\ last.configuration.debug = JsUndefined
      /\ ~C16_Invalid(last.configuration) )
    => /\ last.outcome = "hook"
       /\ Created

----------------------------------------------------------------------------
\* What a step returned or raised and what it found, without its console lines.
Observed(report) == [report EXCEPT !.logged = 0]

\* Every step of the hook with debug: true is possible, gives what the same
\* step of the hook with debug: false gave, and leaves the same state.
C18_SecondCanFollow == ~FirstMoves => ENABLED StepSecond
C18_SecondFollows ==
    ~FirstMoves
    => /\ FirstMoves'
       /\ MirrorsHandler => Observed(last') = TwinReport(Observed(last))

\* C18: enabling debug does not alter control flow: for every sequence of
\* accessor calls, placeholder accesses, request callbacks, query completions,
\* reactions and clock advances, the run with debug: true and the run with
\* debug: false give the same return values, the same raised errors, the same
\* query invocations and the same request and suspense cache contents.
C18_DebugKeepsControlFlow == []C18_SecondCanFollow /\ [][C18_SecondFollows]_vars

\* the hook with debug: true has logged and returned the data of its query
C18_Witness ==
    /\ last.op = "call"
    /\ last.args = "b1"
    /\ last.logged > 0
    /\ last.outcome = "data"
    /\ last.data = QueryData
    /\ Sim

----------------------------------------------------------------------------
\* C19: when every query resolves with a valid response, the component that
\* repeats the render loop (call the accessor, access the data, await the
\* suspend signal, call the accessor again) eventually obtains the data, for
\* every latency of the query and every positive cache.duration.
C19_LoopObtainsData == <>(last.op \in {"call", "access"} /\ last.outcome = "data")

----------------------------------------------------------------------------
\* C20: priming is applied only when the key has no request entry: while the
\* request of a key is in flight (issued, not completed), an accessor call for
\* the key returns a placeholder and leaves the request entry of the key as it
\* is, also when isPrimableFromCache is true and cache.get returns a value.
C20_NoPrimingInFlight ==
    ( /\ last.op = "call"
      /\ FoundOperation
      /\ FoundPromise.status = "pending" )
    => /\ last.outcome = "placeholder"
       /\ cacheQuery[CacheId(last.args)] = last.cacheQueryRequest

----------------------------------------------------------------------------
\* The else branch of the accessor (no finished request entry), for a key with
\* no request entry: what the call returns and the request entry it leaves.
FreshCallOutcome(cacheResult) ==
    IF IsPrimable(cacheResult) THEN "data" ELSE "placeholder"
FreshCallData(cacheResult) ==
    IF IsPrimable(cacheResult) THEN cacheResult ELSE NoData
FreshCallEntry(cacheResult) ==
    IF IsPrimable(cacheResult) THEN RequestEntry(now + config.duration, 0) ELSE NoEntry

\* The last step is an accessor call that detected expiry.
DetectedExpiry == last.op = "call" /\ FoundFinished /\ FoundExpired

\* C21 as stated: an accessor call that detects expiry deletes both entries and
\* then returns and writes what an accessor call with the same cache.get result
\* does on a key without request entry, priming included.
C21_ExpiryFallsThroughAsFresh ==
    DetectedExpiry
    => /\ last.outcome = FreshCallOutcome(last.cacheResult)
       /\ last.data = FreshCallData(last.cacheResult)
       /\ cacheQuery[CacheId(last.args)] = FreshCallEntry(last.cacheResult)
       /\ cacheSuspense[CacheId(last.args)] = 0
       /\ last.invoked = 0

\* C21 amended: an accessor call that detects expiry deletes both entries and
\* then returns a placeholder, writes nothing more and invokes no query, as an
\* accessor call does on a key without request entry that priming does not
\* apply to; it does not prime the key, also when isPrimableFromCache is true
\* and cache.get returns a value.
C21_ExpiryFallsThroughUnprimed ==
    DetectedExpiry
    => /\ last.outcome = "placeholder"
       /\ last.data = NoData
       /\ held[last.caller] = HeldPlaceholder(last.args, TimeStart)
       /\ cacheQuery[CacheId(last.args)] = NoEntry
       /\ cacheSuspense[CacheId(last.args)] = 0
       /\ last.invoked = 0
       /\ CacheGet(CacheId(last.args)) = last.cacheResult

\* expiry is detected where priming would apply to a key without entry
C21_Witness ==
    /\ DetectedExpiry
    /\ IsPrimable(last.cacheResult)
    /\ last.outcome = "placeholder"
    /\ cacheQuery[CacheId(last.args)] = NoEntry

----------------------------------------------------------------------------
\* The operations of the key of the last step that were pending before it: a
\* call or an access settles no promise, and the promise it creates is the last.
PendingBefore ==
    { q \in 1..(Len(promises) - last.invoked) :
        /\ CacheId(promises[q].args) = CacheId(last.args)
        /\ promises[q].status = "pending" }

\* The probes that wrap a pending operation of the key.
PendingProbes(cacheId) ==
    { p \in 1..Len(probes) :
        /\ probes[p].cacheId = cacheId
        /\ promises[probes[p].promise].status = "pending" }

\* C22: while the operation of a key is pending, no accessor call and no
\* placeholder access for the key invokes the query again; every placeholder
\* access calls the one probe of the suspense cache, which wraps that operation,
\* and raises its suspend signal.
C22_PendingOperationIsShared ==
    /\ (last.op \in {"call", "access"} /\ PendingBefore # {})
       => last.invoked = 0
    /\ (last.op = "access" /\ PendingBefore # {})
       => /\ last.outcome = "suspend"
          /\ last.handle = cacheSuspense[CacheId(last.args)]
          /\ last.cacheSuspense # 0 => last.handle = last.cacheSuspense
          /\ probes[last.handle].promise \in PendingBefore
    /\ \A cacheId \in CacheIds : Cardinality(PendingProbes(cacheId)) <= 1

----------------------------------------------------------------------------
\* C23: once a terminal failure is recorded for a key, every synchronous read
\* for the key raises that failure and returns no data: an accessor call, and
\* also the access of a placeholder handed out before the failure was recorded.
C23_FailureSurfacesOnEveryRead ==
    (last.op \in {"call", "access"} /\ last.cacheQueryRequest.kind = "error")
    => /\ last.outcome = "throw"
       /\ last.message = last.cacheQueryRequest.message
       /\ last.data = NoData

----------------------------------------------------------------------------
\* The operation was issued on the access path of a timed accessor call, took
\* longer than maxDelay and has resolved; its onDone hook may not have run yet.
SlowResolved(q) ==
    /\ config.maxDelay # Unset
    /\ promises[q].status = "fulfilled"
    /\ promises[q].delay > config.maxDelay
    /\ \E p \in 1..Len(probes) :
         /\ probes[p].promise = q
         /\ probes[p].timeStart # Unset
         /\ probes[p].timeStart <= promises[q].invokedAt

\* C24: with enforce and an operation that completed after more than maxDelay,
\* no accessor call for the key made after the query has completed returns the
\* data of that operation, also not a call made between the completion of the
\* operation and the onDone hook that records the failure.
C24_NoDataAfterEnforcedDelay ==
    ( /\ last.op = "call"
      /\ config.enforce
      /\ FoundOperation
      /\ SlowResolved(last.cacheQueryRequest.promise) )
    => ~(last.outcome = "data" /\ last.data = FoundPromise.data)

----------------------------------------------------------------------------
\* C25: a request entry whose operation has rejected counts as completed for
\* expiry: an accessor call made more than cache.duration after the request was
\* issued removes the request and suspense entries of the key and returns a
\* placeholder, and the access of that placeholder invokes the query again.
C25_RejectedEntryExpires ==
    /\ ( /\ last.op = "call"
         /\ FoundOperation
         /\ FoundPromise.status = "rejected"
         /\ FoundExpired )
       => /\ last.outcome = "placeholder"
          /\ cacheQuery[CacheId(last.args)] = NoEntry
          /\ cacheSuspense[CacheId(last.args)] = 0
    /\ ( /\ last.op = "access"
         /\ FoundNoEntry /\ FoundNoProbe )
       => /\ last.invoked = 1
          /\ last.outcome = "suspend"

----------------------------------------------------------------------------
\* C26 as stated: after the operation of a key has failed with a response
\* error, every accessor call made before the entry expires returns a
\* placeholder whose access raises that same error, and neither invokes the
\* query again.
C26_FailedResponseNeverRetried ==
    /\ (last.op = "call" /\ FoundFailedResponse /\ ~FoundExpired)
       => /\ last.outcome = "placeholder"
          /\ last.invoked = 0
          /\ EntryKept
    /\ (last.op = "access" /\ FoundFailedResponse /\ ~FoundExpired)
       => /\ last.outcome = "throw"
          /\ last.message = FoundPromise.message
          /\ last.invoked = 0

\* C26 amended: such an accessor call invokes no query and leaves the entry in
\* place, and returns a placeholder when cache.get returns null and the
\* cache.get value otherwise; an access that finds the failed operation invokes
\* no query, and when its probe wraps that operation it raises that same error
\* once the probe has recorded the rejection and the suspend signal before.
C26_FailedResponseNeverRetriedUnlessServed ==
    /\ (last.op = "call" /\ FoundFailedResponse /\ ~FoundExpired)
       => /\ last.invoked = 0
          /\ EntryKept
          /\ IF last.cacheResult = NoData
             THEN last.outcome = "placeholder"
             ELSE last.outcome = "data" /\ last.data = last.cacheResult
    /\ (last.op = "access" /\ FoundFailedResponse)
       => /\ last.invoked = 0
          /\ cacheQuery[CacheId(last.args)] = last.cacheQueryRequest
          /\ last.handle # 0
          /\ ProbeCalled.promise = last.cacheQueryRequest.promise
             => IF ProbeCalled.status = "pending"
                THEN last.outcome = "suspend"
                ELSE /\ last.outcome = "throw"
                     /\ last.message = FoundPromise.message
                     /\ last.message = ResponseErrorMessage(FoundPromise.response)

\* the access finds the failed operation without a probe, and does not retry
C26_Witness ==
    /\ last.op = "access"
    /\ FoundFailedResponse
    /\ ~FoundExpired
    /\ FoundNoProbe
    /\ last.invoked = 0
    /\ last.outcome = "suspend"

\* the failure is raised again, by a later access
C26_WitnessRaised ==
    /\ last.op = "access"
    /\ FoundFailedResponse
    /\ ~FoundExpired
    /\ last.outcome = "throw"
    /\ last.message = "(500) Response failed."

----------------------------------------------------------------------------
\* An accessor call for a never-requested key that priming does not apply to
\* returns a placeholder, invokes no query and leaves both caches without entry.
C27_PlaceholderCallWritesNothing ==
    ( /\ last.op = "call"
      /\ FoundNoEntry /\ FoundNoProbe
      /\ ~(config.isPrimableFromCache /\ last.cacheResult # NoData) )
    => /\ last.outcome = "placeholder"
       /\ last.invoked = 0
       /\ last.handle = 0
       /\ cacheQuery[CacheId(last.args)] = NoEntry
       /\ cacheSuspense[CacheId(last.args)] = 0

\* A query is invoked only by the access of a placeholder or by the request
\* callback, and a probe is created only by the access of a placeholder.
C27_IssuedOnAccessOrRequest ==
    /\ Len(promises') # Len(promises)
       => /\ last'.op \in {"access", "request"}
          /\ Len(promises') = Len(promises) + 1
    /\ Len(probes') # Len(probes) => last'.op = "access"

\* C27: an accessor call that returns a placeholder for a never-requested key
\* invokes no query and writes nothing to the request cache or the suspense
\* cache; the query is issued only when the placeholder is accessed or the
\* request callback is invoked.
C27_PlaceholderIsLazy ==
    []C27_PlaceholderCallWritesNothing /\ [][C27_IssuedOnAccessOrRequest]_vars

\* a placeholder is handed out although the data cache has the book, and
\* nothing has been requested
C27_Witness ==
    /\ last.op = "call"
    /\ FoundNoEntry /\ FoundNoProbe
    /\ last.outcome = "placeholder"
    /\ last.cacheResult = OtherData
    /\ promises = <<>> /\ probes = <<>>
    /\ cacheQuery[CacheId(last.args)] = NoEntry

----------------------------------------------------------------------------
\* The request callback on a key with an operation, and on a key with a
\* terminal failure.
C28_ReturnsOperationOrRaises ==
    /\ (last.op = "request" /\ FoundOperation)
       => /\ last.outcome = "promise"
          /\ last.handle = last.cacheQueryRequest.promise
          /\ last.invoked = 0
          /\ cacheQuery[CacheId(last.args)] = last.cacheQueryRequest
    /\ (last.op = "request" /\ last.cacheQueryRequest.kind = "error")
       => /\ last.outcome = "throw"
          /\ last.message = last.cacheQueryRequest.message
          /\ last.invoked = 0
          /\ cacheQuery[CacheId(last.args)] = last.cacheQueryRequest

\* The request callback has invoked the query and stored the new entry.
C28_InvokedAndStored ==
    /\ last.invoked = 1
    /\ last.outcome = "promise"
    /\ last.handle = Len(promises)
    /\ promises[Len(promises)] = NewPromise(last.args)
    /\ cacheQuery[CacheId(last.args)] = RequestEntry(now + config.duration, Len(promises))

\* C28: the request callback returns the pending or completed
\* operation of the key without invoking the query, raises the terminal failure
\* of the key, and only for a key with no entry invokes the query and stores
\* the new entry.
C28_RequestIsCoordinator ==
    /\ C28_ReturnsOperationOrRaises
    /\ (last.op = "request" /\ FoundNoEntry) => C28_InvokedAndStored
    /\ (last.op = "request" /\ last.invoked # 0) => FoundNoEntry

----------------------------------------------------------------------------
\* The last step is an accessor call that took the priming branch: the entry it
\* found is not a completed operation, and cache.get returned a value.
Primes ==
    /\ last.op = "call"
    /\ config.isPrimableFromCache
    /\ last.cacheResult # NoData
    /\ \/ FoundNoEntry
       \/ FoundOperation /\ ~FoundPromise.isQueryFinished

C29_PrimedEntryWritten ==
    Primes
    => /\ cacheQuery[CacheId(last.args)] = RequestEntry(now + config.duration, 0)
       /\ cacheSuspense[CacheId(last.args)] = last.cacheSuspense
       /\ last.invoked = 0
       /\ last.outcome = "data"
       /\ last.data = last.cacheResult
       /\ last.data = CacheGet(CacheId(last.args))

\* An accessor call writes no entry of another key, and no suspense entry
\* unless it detects expiry.
C29_NothingElseWritten ==
    last'.op = "call"
    => /\ \A cacheId \in CacheIds \ {CacheId(last'.args)} :
            /\ cacheQuery'[cacheId] = cacheQuery[cacheId]
            /\ cacheSuspense'[cacheId] = cacheSuspense[cacheId]
       /\ cacheSuspense'[CacheId(last'.args)] \in {cacheSuspense[CacheId(last'.args)], 0}
       /\ promises' = promises /\ probes' = probes /\ books' = books

\* C29: priming writes exactly one request entry, that of the key, with a null
\* operation and cacheTimeToRefresh = now + cache.duration, creates no suspense
\* entry, invokes no query, and returns the cache.get result.
C29_PrimingWritesOneEntry == []C29_PrimedEntryWritten /\ [][C29_NothingElseWritten]_vars

\* primed after the clock has advanced: the entry expires at now + duration
C29_Witness ==
    /\ Primes
    /\ FoundNoEntry /\ FoundNoProbe
    /\ now > 0
    /\ cacheQuery[CacheId(last.args)] = RequestEntry(now + config.duration, 0)
    /\ cacheSuspense[CacheId(last.args)] = 0
    /\ last.outcome = "data"

----------------------------------------------------------------------------
\* The query invocations that settle in the step.
Settling == { q \in 1..Len(promises) :
                promises[q].status = "pending" /\ promises'[q].status # "pending" }

\* cache.set has run for invocation q: the book of the response is stored under
\* the key of the arguments of q, and the promise resolves with it.
CacheSetRan(q) ==
    /\ books' = [books EXCEPT ![CacheId(promises[q].args)] = promises'[q].response.data]
    /\ promises'[q].data = promises'[q].response.data
    /\ promises'[q].data # NoData

\* An invocation settles once; it is fulfilled exactly when its response is
\* valid, and then cache.set runs with its key and arguments; when the response
\* fails validation or the query rejects, the data cache is left as it is; and
\* nothing else of the engine writes the data cache.
C30_CacheSetOnValidResponse ==
    /\ \A q \in 1..Len(promises) :
         promises[q].status # "pending" => promises'[q] = promises[q]
    /\ \A q \in Settling :
         /\ promises'[q].args = promises[q].args
         /\ promises'[q].status = "fulfilled"
            <=> /\ promises'[q].response.status = 200
                /\ promises'[q].response.data # NoData
                /\ promises'[q].response.error = ""
         /\ IF promises'[q].status = "fulfilled"
            THEN CacheSetRan(q)
            ELSE books' = books /\ promises'[q].data = NoData
    /\ Cardinality(Settling) <= 1
    /\ (books' # books /\ Settling = {})
       => \E cacheId \in CacheIds : books' = [books EXCEPT ![cacheId] = OtherData]

\* C30: cache.set is invoked exactly once for each query invocation that
\* resolves with a valid response (status 200, data, no error), with the cache
\* key and the arguments of that request, and never for a response that fails
\* validation or for a query that rejects: a failed request leaves the data
\* cache unchanged.
C30_CacheSetExactlyOnValid == [][C30_CacheSetOnValidResponse]_vars

\* one invocation has stored its book, and a later one for the key failed on a
\* response that carried a book: the stored book is still the first
C30_Witness ==
    /\ Len(promises) = 2
    /\ promises[1].status = "fulfilled"
    /\ promises[1].response = ValidResponse
    /\ promises[2].status = "rejected"
    /\ promises[2].response = Response(500, QueryData, "")
    /\ promises[2].data = NoData
    /\ books[CacheId(promises[1].args)] = QueryData

----------------------------------------------------------------------------
\* The probes whose onDone hook runs in the step.
Finishing == { p \in 1..Len(probes) :
                 probes[p].chain = "pending" /\ probes'[p].chain = "fulfilled" }

\* The timing starts at the entry of the accessor call that returns the
\* placeholder, and the probe created by the access of the placeholder keeps it.
C31_TimedFromAccessorCall ==
    /\ (last'.op = "call" /\ last'.outcome = "placeholder")
       => held'[last'.caller].timeStart =
              (IF config.maxDelay = Unset THEN Unset ELSE now)
    /\ (last'.op = "access" /\ Len(probes') = Len(probes) + 1)
       => /\ probes'[Len(probes')].timeStart = held[last'.caller].timeStart
          /\ probes'[Len(probes')].cacheId = CacheId(held[last'.caller].args)

\* The onDone hook records the timeout failure exactly when the time elapsed
\* since then is greater than maxDelay and enforce is set; no other step
\* records a failure.
C31_RecordedWhenOverdue ==
    /\ \A p \in Finishing :
         IF /\ config.maxDelay # Unset
            /\ config.enforce
            /\ now - probes[p].timeStart > config.maxDelay
         THEN cacheQuery' = [cacheQuery EXCEPT ![probes[p].cacheId] =
                                 ErrorEntry(ErrorTimedOut(QueryName, probes[p].cacheId))]
         ELSE cacheQuery' = cacheQuery
    /\ \A cacheId \in CacheIds :
         (cacheQuery[cacheId].kind # "error" /\ cacheQuery'[cacheId].kind = "error")
         => \E p \in Finishing : probes[p].cacheId = cacheId

C31_NoFailureWithoutMaxDelay ==
    config.maxDelay = Unset
    => /\ \A cacheId \in CacheIds : cacheQuery[cacheId].kind # "error"
       /\ \A p \in 1..Len(probes) : probes[p].timeStart = Unset

\* C31: with maxDelay set, the elapsed duration is measured from the entry of
\* the accessor call that returned the placeholder whose access created the
\* probe up to the completion of the operation (the onDone hook); a timeout
\* failure is recorded for the key exactly when that duration is strictly
\* greater than maxDelay and enforce is true, and never when maxDelay is unset.
C31_TimeoutExactlyWhenOverdue ==
    /\ []C31_NoFailureWithoutMaxDelay
    /\ [][C31_TimedFromAccessorCall /\ C31_RecordedWhenOverdue]_vars

\* the hook has run exactly maxDelay after the accessor call, with enforce, and
\* has recorded nothing
C31_Witness ==
    /\ config.enforce
    /\ config.maxDelay # Unset
    /\ \E p \in 1..Len(probes) :
         /\ probes[p].chain = "fulfilled"
         /\ probes[p].status = "pending"
         /\ now - probes[p].timeStart = config.maxDelay
         /\ cacheQuery[probes[p].cacheId].kind = "request"

\* the hook has run later than that and has recorded the failure
C31_WitnessOverdue ==
    /\ config.enforce
    /\ \E p \in 1..Len(probes) :
         /\ probes[p].chain = "fulfilled"
         /\ probes[p].status = "pending"
         /\ now - probes[p].timeStart > config.maxDelay
         /\ cacheQuery[probes[p].cacheId] =
                ErrorEntry(ErrorTimedOut(QueryName, probes[p].cacheId))

----------------------------------------------------------------------------
\* The probes whose chained promise rejects in the step: the operation failed.
Failing == { p \in 1..Len(probes) :
               probes[p].chain = "pending" /\ probes'[p].chain = "rejected" }

\* The reaction of a failed operation writes nothing, and a failure entry is
\* only ever created by the reaction of an operation that succeeded.
C32_NoHookOnFailure ==
    /\ Failing # {} => (cacheQuery' = cacheQuery /\ cacheSuspense' = cacheSuspense)
    /\ \A p \in Failing : promises[probes[p].promise].status = "rejected"
    /\ \A cacheId \in CacheIds :
         (cacheQuery[cacheId].kind # "error" /\ cacheQuery'[cacheId].kind = "error")
         => \E p \in Finishing :
              /\ probes[p].cacheId = cacheId
              /\ promises[probes[p].promise].status = "fulfilled"

\* The probe of a failed operation raises the failure of the operation.
C32_ProbeRaisesOriginal ==
    (CalledProbe /\ promises[ProbeCalled.promise].status = "rejected")
    => /\ last.outcome \in {"suspend", "throw"}
       /\ last.outcome = "throw"
          => /\ last.message = promises[ProbeCalled.promise].message
             /\ last.message # ErrorTimedOut(QueryName, ProbeCalled.cacheId)

\* C32: the onDone hook, and with it the enforcement of the duration
\* constraints, fires only when the operation completes successfully: an
\* operation that fails (invalid response or rejected query) never produces a
\* timeout failure entry, however long it took, and the probe raises the
\* original failure.
C32_EnforcementOnlyOnSuccess == []C32_ProbeRaisesOriginal /\ [][C32_NoHookOnFailure]_vars

\* with enforce and maxDelay 0 the operation failed late, its reactions have
\* run, the probe has raised the failure and the request entry is still there
C32_Witness ==
    /\ config.enforce
    /\ config.maxDelay # Unset
    /\ CalledProbe
    /\ ProbeCalled.status = "error"
    /\ ProbeCalled.timeStart # Unset
    /\ promises[ProbeCalled.promise].delay > config.maxDelay
    /\ last.outcome = "throw"
    /\ last.message = "(500) Response failed."
    /\ cacheQuery[ProbeCalled.cacheId].kind = "request"

----------------------------------------------------------------------------
(* The suspend signal of a probe is its suspender promise: it settles when   *)
(* the handler of the suspender has run, the step that sets the status.      *)

\* Once the wrapped operation has settled, the signal can settle, and when it
\* does the status has left pending, whether the operation succeeded or failed.
C33_SignalSettlesWithStatus ==
    \A p \in 1..Len(probes) :
        (probes[p].chain # "pending" /\ probes[p].status = "pending")
        => ENABLED (Suspender(p) /\ probes'[p].status # "pending")

\* A probe whose signal has settled does not raise the signal again.
C33_NoSecondSignal ==
    (CalledProbe /\ ProbeCalled.status # "pending")
    => /\ last.outcome \in {"data", "throw"}
       /\ ProbeCalled.chain # "pending"

\* The status leaves pending only in the handler of the suspender, after the
\* wrapped operation has settled.
C33_SettlesAfterOperation ==
    \A p \in 1..Len(probes) :
        (probes[p].status = "pending" /\ probes'[p].status # "pending")
        => /\ probes[p].chain # "pending"
           /\ promises[probes[p].promise].status # "pending"
           /\ probes'[p].status = "success" <=> probes[p].chain = "fulfilled"

\* C33: a caller that catches the suspend signal of a probe, awaits it and
\* calls the probe again never receives the signal a second time: the signal
\* settles only after the status of the probe has left pending, and it settles,
\* without rejecting, whether the wrapped operation succeeded or failed.
C33_AwaitedSignalIsFinal ==
    /\ []C33_SignalSettlesWithStatus
    /\ []C33_NoSecondSignal
    /\ [][C33_SettlesAfterOperation]_vars

\* the cached probe of a failed operation is called again after its signal has
\* settled, and raises the failure
C33_Witness ==
    /\ CalledProbe
    /\ last.cacheSuspense = last.handle
    /\ ProbeCalled.status = "error"
    /\ ProbeCalled.chain = "rejected"
    /\ last.outcome = "throw"
    /\ last.message = "(200) Response failed."

----------------------------------------------------------------------------
(* Reading a property of the placeholder.  The data of the model is the book *)
(* named by its id; here it is given the shape it has in the program.        *)

\* type Book = { id, title, authorId }
BookProperties == {"id", "title", "authorId"}
Text(string) == [text |-> string]     \* a string as a value among objects
Book(data) == [id |-> Text(data), title |-> Text("My Book"), authorId |-> Text("3")]

\* cache.set and cache.get return { data: book }
AccessorQueryResult(data) == [data |-> Book(data)]

\* the get trap of the proxy: get() { return suspenseRequestQuery(...)() },
\* the result of the probe whatever the property read
ProxyGet(property, probeResult) == probeResult

\* C34: the placeholder can be treated as the real data: after the operation
\* has completed successfully, reading a property p of a previously returned
\* placeholder yields the value of property p of the materialized data for
\* that key.
C34_PlaceholderReadsProperty ==
    (last.op = "access" /\ last.outcome = "data")
    => \A property \in BookProperties :
           ProxyGet(property, AccessorQueryResult(last.data))
               = AccessorQueryResult(last.data).data[property]

----------------------------------------------------------------------------
\* A key that has a probe has a request entry.
C35_ProbeHasEntry ==
    \A cacheId \in CacheIds :
        cacheSuspense[cacheId] # 0 => cacheQuery[cacheId] # NoEntry

\* A step that stores a probe for a key leaves a request entry for the key,
\* and a step that removes one of the two removes the other.
C35_CreatedAfterRemovedWith ==
    \A cacheId \in CacheIds :
        /\ (cacheSuspense'[cacheId] # cacheSuspense[cacheId] /\ cacheSuspense'[cacheId] # 0)
           => /\ cacheQuery'[cacheId] # NoEntry
              /\ cacheQuery'[cacheId].kind = "request"
              /\ probes'[cacheSuspense'[cacheId]].promise = cacheQuery'[cacheId].promise
        /\ (cacheQuery[cacheId] # NoEntry /\ cacheQuery'[cacheId] = NoEntry)
           => cacheSuspense'[cacheId] = 0
        /\ (cacheSuspense[cacheId] # 0 /\ cacheSuspense'[cacheId] = 0)
           => (cacheQuery[cacheId] # NoEntry /\ cacheQuery'[cacheId] = NoEntry)

\* C35: in every reachable state, if the suspension map holds a probe for a
\* key then the request map holds an entry for that key: a probe is created
\* only after its request entry has been written, and the two are only deleted
\* together.
C35_ProbeImpliesEntry == []C35_ProbeHasEntry /\ [][C35_CreatedAfterRemovedWith]_vars

\* the probe of a key outlives the operation it wraps: the entry of the key is
\* now the timeout failure
C35_Witness ==
    /\ cacheSuspense["k1"] # 0
    /\ cacheQuery["k1"].kind = "error"
    /\ probes[cacheSuspense["k1"]].status = "success"

----------------------------------------------------------------------------
(* One hook used for two books: the caller asks for either of them, and the  *)
(* delay constraint is enforced so that terminal failures are recorded.      *)

InitKeys ==
    /\ config \in Configurations
    /\ config.maxDelay = 0
    /\ config.enforce
    /\ now = 0
    /\ cacheQuery = [k \in CacheIds |-> NoEntry]
    /\ cacheSuspense = [k \in CacheIds |-> 0]
    /\ books = [k \in CacheIds |-> NoData]
    /\ promises = <<>>
    /\ probes = <<>>
    /\ held = [c \in Callers |-> NoHeld]
    /\ last = Idle

NextKeys ==
    \/ \E c \in Callers, args \in AllArgs : AccessorCall(c, args)
    \/ \E c \in Callers : PlaceholderAccess(c)
    \/ \E args \in AllArgs : Request(args)
    \/ \E q \in 1..MaxPromises : QueryResolves(q, ValidResponse)
    \/ \E p \in 1..MaxProbes : OnDone(p)
    \/ \E p \in 1..MaxProbes : Suspender(p)
    \/ Tick

SpecKeys == InitKeys /\ [][NextKeys]_vars

\* the step is an operation of the hook for the key: a handler called with
\* arguments of that key, or the onDone hook of a probe of that key
OperationFor(cacheId) ==
    \/ /\ last'.op \in {"call", "access", "request"}
       /\ CacheId(last'.args) = cacheId
    \/ \E p \in 1..Len(probes) :
           /\ probes[p].chain = "pending"
           /\ probes'[p].chain # "pending"
           /\ probes[p].cacheId = cacheId

\* C36: every engine operation performed for one cache key (accessor call,
\* placeholder access, request callback, expiry, priming, recording a terminal
\* failure) leaves the request entries and suspension entries of all other
\* cache keys unchanged.
C36_OtherKeysUnchanged ==
    [][\A cacheId \in CacheIds :
           (\E other \in CacheIds \ {cacheId} : OperationFor(other))
           => /\ cacheQuery'[cacheId] = cacheQuery[cacheId]
              /\ cacheSuspense'[cacheId] = cacheSuspense[cacheId]]_vars

\* an accessor call has detected the expiry of k1 and reset it while k2 has a
\* request entry and a probe
C36_Witness ==
    /\ last.op = "call"
    /\ CacheId(last.args) = "k1"
    /\ FoundFinished /\ FoundExpired
    /\ cacheQuery["k1"] = NoEntry
    /\ cacheQuery["k2"].kind = "request"
    /\ cacheSuspense["k2"] # 0

----------------------------------------------------------------------------
\* A probe stays the probe it is, and its status only ever leaves pending.
C37_StatusChangesOnce ==
    /\ Len(probes') >= Len(probes)
    /\ \A p \in 1..Len(probes) :
         /\ probes'[p].promise = probes[p].promise
         /\ probes[p].status # "pending" => probes'[p].status = probes[p].status
         /\ probes'[p].status \in {probes[p].status, "success", "error"}

\* What a call of the probe does is decided by its status alone.
C37_OutcomeFollowsStatus ==
    CalledProbe
    => /\ last.outcome = "data" <=> ProbeCalled.status = "success"
       /\ last.outcome = "throw" <=> ProbeCalled.status = "error"
       /\ last.outcome = "suspend" <=> ProbeCalled.status = "pending"

\* C37: the status of a probe changes at most once, from pending to success or
\* from pending to error, and never changes again: a probe that has returned a
\* value never later raises, and a probe that has raised an error never later
\* returns a value or suspends.
C37_ProbeSettlesOnce == [][C37_StatusChangesOnce]_vars /\ []C37_OutcomeFollowsStatus

\* a cached probe still returns the value after the request entry of its key
\* has been replaced by the timeout failure
C37_Witness ==
    /\ CalledProbe
    /\ last.cacheSuspense = last.handle
    /\ last.cacheQueryRequest.kind = "error"
    /\ ProbeCalled.status = "success"
    /\ last.outcome = "data"

----------------------------------------------------------------------------
(* createAccessorQuery, the accessor without suspense cache and expiry.      *)
(* Its request cache is requestMap, a Map from keys to promises; it is kept  *)
(* in cacheQuery here (0 = no promise under the key).  A Map takes any value *)
(* as a key, also the function cacheId itself.                               *)

CacheIdFunction == "cacheId"      \* the function cacheId, as a key of the Map
RequestMapKeys == CacheIds \cup {CacheIdFunction}

\* `(${response.status}) Response failed${response.error ? `: ${...}` : ''}`
LegacyErrorMessage(response) ==
    "(" \o ToString(response.status) \o ") Response failed"
        \o (IF response.error # "" THEN ": " \o response.error ELSE "")

\* requestMap.get(cacheIdString)
RequestMapGet(cacheIdString) == cacheQuery[cacheIdString]

\* requestMap.set(cacheId, promise): the key is cacheId, not cacheIdString
RequestMapSet(cacheIdString, promise) ==
    [cacheQuery EXCEPT ![CacheIdFunction] = promise]

\* request(args): the promise returned, and the state it leaves
LegacyRequestCached(args) == RequestMapGet(CacheId(args)) # 0
LegacyRequestPromise(args) ==
    IF LegacyRequestCached(args) THEN RequestMapGet(CacheId(args)) ELSE Len(promises) + 1
LegacyRequestMade(args) ==
    IF LegacyRequestCached(args)
    THEN UNCHANGED <<promises, cacheQuery>>
    ELSE /\ Len(promises) < PromiseLimit
         /\ promises' = Append(promises, NewPromise(args))
         /\ cacheQuery' = RequestMapSet(CacheId(args), Len(promises) + 1)

\* the accessor hook: the cached result, or a proxy
LegacyCall(c, args) ==
    /\ held' = [held EXCEPT ![c] =
                   IF CacheGet(CacheId(args)) # NoData
                   THEN HeldData(CacheGet(CacheId(args)))
                   ELSE HeldPlaceholder(args, Unset)]
    /\ UNCHANGED <<config, now, cacheQuery, cacheSuspense, books, promises, probes>>
    /\ last' = Report("legacy call", c, args,
                      IF CacheGet(CacheId(args)) # NoData THEN "data" ELSE "placeholder",
                      CacheGet(CacheId(args)), "", 0, 0)

\* the get trap of the proxy: throw request(args)
LegacyAccess(c) ==
    /\ held[c].kind = "placeholder"
    /\ LegacyRequestMade(held[c].args)
    /\ last' = Report("legacy access", c, held[c].args, "suspend", NoData, "",
                      LegacyRequestPromise(held[c].args), 0)
    /\ UNCHANGED <<config, now, cacheSuspense, books, probes, held>>

\* the request callback handed to cacheSet
LegacyRequest(args) ==
    /\ LegacyRequestMade(args)
    /\ last' = Report("legacy request", "", args, "promise", NoData, "",
                      LegacyRequestPromise(args), 0)
    /\ UNCHANGED <<config, now, cacheSuspense, books, probes, held>>

\* the continuation after `await query(args)`
LegacyQueryResolves(q, response) ==
    /\ q \in 1..Len(promises)
    /\ promises[q].status = "pending"
    /\ IF ResponseFailed(response)
       THEN /\ promises' = Settled(q, "rejected", FALSE, response, NoData,
                                   LegacyErrorMessage(response))
            /\ UNCHANGED books
       ELSE /\ promises' = Settled(q, "fulfilled", FALSE, response, response.data, "")
            /\ books' = CacheSet(CacheId(promises[q].args), response)
    /\ last' = Idle
    /\ UNCHANGED <<config, now, cacheQuery, cacheSuspense, probes, held>>

InitLegacy ==
    /\ config = [isPrimableFromCache |-> FALSE, duration |-> 1, enforce |-> FALSE,
                 maxDelay |-> Unset]
    /\ now = 0
    /\ cacheQuery = [k \in RequestMapKeys |-> 0]
    /\ cacheSuspense = [k \in CacheIds |-> 0]
    /\ books = [k \in CacheIds |-> NoData]
    /\ promises = <<>>
    /\ probes = <<>>
    /\ held = [c \in Callers |-> NoHeld]
    /\ last = Idle

NextLegacy ==
    \/ \E c \in Callers, args \in AllArgs : LegacyCall(c, args)
    \/ \E c \in Callers : LegacyAccess(c)
    \/ \E args \in AllArgs : LegacyRequest(args)
    \/ \E q \in 1..PromiseLimit, response \in Responses : LegacyQueryResolves(q, response)
    \/ \E q \in 1..PromiseLimit : QueryRejects(q)

SpecLegacy == InitLegacy /\ [][NextLegacy]_vars

\* the invocations of the query made for the arguments
LegacyInvocations(args) == {q \in 1..Len(promises) : promises[q].args = args}

\* C38: in the legacy createAccessorQuery accessor, the request cache is read
\* before a request is created: when the placeholder for the same arguments is
\* accessed several times, the same stored request is raised each time and the
\* query is invoked once.
C38_LegacyRequestReused ==
    last.op = "legacy access"
    => /\ last.handle \in LegacyInvocations(last.args)
       /\ Cardinality(LegacyInvocations(last.args)) = 1
       /\ last.invoked = 0 <=> last.cacheQueryRequest = last.handle

====
